---- MODULE Spec2Model ----
(***************************************************************************)
(* Model of src/algorithm/src/algorithm.ts: the group-assignment trial     *)
(* (runAlgorithmOnce: Phase A ranked placement with eviction, Phase B      *)
(* fallback placement), its scoring and constraint helpers, and the        *)
(* multi-trial selection of runAlgorithmAndFindBest.                       *)
(*                                                                         *)
(* Usernames are strings, as in the source.  A JavaScript array is a       *)
(* sequence, indexed from 1 here and from 0 in the source; the loop        *)
(* counters i and j keep the source's 0-based values.                      *)
(***************************************************************************)
EXTENDS Integers, Sequences, FiniteSets, TLC

VARIABLES
    users,               \* UserDetails: username -> [isMale]
    preferences,         \* Preferences: username (with an entry) -> friend list
    antiPreferences,     \* list of "A__B" strings
    groupSizesArgument,  \* yargs.argv.sizes, as its list of '-'-separated tokens
    oneGenderGroups,     \* yargs.argv.ignoreGender === 'true'
    runs,                \* run id -> the local state of that runAlgorithmOnce callback
    progressBar,         \* ticks of the progress bar all runs share
    bestResult,          \* the run runMany selected, 0 before the selection
    call                 \* a helper function called on its own: arguments, then result

vars == <<users, preferences, antiPreferences, groupSizesArgument,
          oneGenderGroups, runs, progressBar, bestResult, call>>

inputs == <<users, preferences, antiPreferences, groupSizesArgument, oneGenderGroups>>

-----------------------------------------------------------------------------
(* Program constants and JavaScript number values.                          *)

MOVE_ON_COUNT == 100

\* JavaScript's Infinity, undefined and NaN, where the source compares numbers
\* with them.  Group sizes and weights are never negative, so negative
\* integers are free to stand for them.
Infinity == -1
Undefined == -2
NaN == -3

\* a > b for a number a and b a number, Infinity, undefined or NaN
\* (a > undefined compares with NaN and is false).
GreaterThan(a, b) ==
    IF b = Infinity \/ b = Undefined \/ b = NaN THEN FALSE ELSE a > b

\* a < b for a and b numbers or Infinity.
LessThan(a, b) ==
    IF a = Infinity THEN FALSE
    ELSE IF b = Infinity THEN TRUE
    ELSE a < b

\* Math.floor(n / 2) for n >= 0 or NaN.
FloorHalf(n) == IF n = NaN THEN NaN ELSE n \div 2

-----------------------------------------------------------------------------
(* Array helpers.                                                           *)

\* Array.prototype.includes on a list of strings.
Includes(list, x) == \E n \in 1..Len(list) : list[n] = x

\* The list without its n-th element: splice(n, 1).
RemoveAt(list, n) ==
    [m \in 1..(Len(list) - 1) |-> IF m < n THEN list[m] ELSE list[m + 1]]

\* _.remove(list, e => e === x): drops every occurrence of x.
Without(list, x) == SelectSeq(list, LAMBDA e : e # x)

\* String.prototype.endsWith.
EndsWith(s, suffix) ==
    /\ Len(s) >= Len(suffix)
    /\ SubSeq(s, Len(s) - Len(suffix) + 1, Len(s)) = suffix

\* All orderings of a finite set, as sequences.
Orderings(S) ==
    {p \in [1..Cardinality(S) -> S] : \A x, y \in 1..Cardinality(S) : x # y => p[x] # p[y]}

\* Object.keys: the keys of an object in insertion order.  The user records
\* are read in document-id order, so keys come out in string order.
KeyOrder == <<"a", "b", "c", "c--x2", "d">>
Keys(obj) == SelectSeq(KeyOrder, LAMBDA k : k \in DOMAIN obj)

Range(list) == {list[n] : n \in 1..Len(list)}

-----------------------------------------------------------------------------
(* Scoring primitives.                                                      *)

groupWithNew(group, member) == Append(group, member)

\* Mutant: the "--x5" suffix is not recognised.
getMultiplierUpToFour(username) ==
    IF EndsWith(username, "--x4") THEN 4
    ELSE IF EndsWith(username, "--x3") THEN 3
    ELSE IF EndsWith(username, "--x2") THEN 2
    ELSE 1

getMultiplier(username) ==
    IF EndsWith(username, "--x5") THEN 5
    ELSE IF EndsWith(username, "--x4") THEN 4
    ELSE IF EndsWith(username, "--x3") THEN 3
    ELSE IF EndsWith(username, "--x2") THEN 2
    ELSE 1

RECURSIVE getAllMultiplier(_)
getAllMultiplier(usernames) ==
    IF usernames = <<>> THEN 0
    ELSE getAllMultiplier(SubSeq(usernames, 1, Len(usernames) - 1))
         + getMultiplier(usernames[Len(usernames)])

\* Sum of f[n] over n in 1..Len(f).
RECURSIVE SumFirst(_, _)
SumFirst(f, n) == IF n = 0 THEN 0 ELSE SumFirst(f, n - 1) + f[n]
SumSeq(f) == SumFirst(f, Len(f))

\* Mutant: a group counts as full on reaching its caps, not on exceeding them.
hasMaximumOnReaching(group, isMale, maxAmount, maxAmountSame, oneGender, userDetails) ==
    LET currentAmount == SumSeq([n \in 1..Len(group) |-> getMultiplier(group[n])])
        currentAmountSame ==
            SumSeq([n \in 1..Len(group) |->
                       IF userDetails[group[n]].isMale = isMale
                       THEN getMultiplier(group[n]) ELSE 0])
    IN  IF oneGender
        THEN GreaterThan(currentAmount + 1, maxAmount)
        ELSE GreaterThan(currentAmountSame + 1, maxAmountSame)
             \/ GreaterThan(currentAmount + 1, maxAmount)

\* Mutant: members are counted by head, whatever their weight.
hasMaximumHeadCount(group, isMale, maxAmount, maxAmountSame, oneGender, userDetails) ==
    IF oneGender
    THEN GreaterThan(Len(group), maxAmount)
    ELSE \/ GreaterThan(Cardinality({n \in 1..Len(group) :
                                        userDetails[group[n]].isMale = isMale}),
                        maxAmountSame)
         \/ GreaterThan(Len(group), maxAmount)

hasMaximum(group, isMale, maxAmount, maxAmountSame, oneGender, userDetails) ==
    LET currentAmount == SumSeq([n \in 1..Len(group) |-> getMultiplier(group[n])])
        currentAmountSame ==
            SumSeq([n \in 1..Len(group) |->
                       IF userDetails[group[n]].isMale = isMale
                       THEN getMultiplier(group[n]) ELSE 0])
    IN  IF oneGender
        THEN GreaterThan(currentAmount, maxAmount)
        ELSE GreaterThan(currentAmountSame, maxAmountSame)
             \/ GreaterThan(currentAmount, maxAmount)

\* Requires prefs[member] to exist (the source would throw otherwise).
getUGScore(prefs, group, member) ==
    SumSeq([n \in 1..Len(group) |->
               IF Includes(prefs[member], group[n])
               THEN getMultiplier(group[n]) ELSE 0])

\* Mutant: equal scores are not told apart by the number of members.
UGBeforeScoreOnly(prefs, groups, newMember, a, b) ==
    getUGScore(prefs, groups[a], newMember) > getUGScore(prefs, groups[b], newMember)

\* The comparator of getUGRanking says a sorts before b: higher score, or
\* equal score and more members (array length, not weight).
UGBefore(prefs, groups, newMember, a, b) ==
    LET sa == getUGScore(prefs, groups[a], newMember)
        sb == getUGScore(prefs, groups[b], newMember)
    IN  \/ sa > sb
        \/ sa = sb /\ Len(groups[a]) > Len(groups[b])

\* The rankings getUGRanking can return.  Where the comparator answers
\* _.sample([-1, 1]) the sort may leave the two groups in either order;
\* sampled = 0 leaves every call free, sampled = 1 or -1 fixes what
\* _.sample returns (1 keeps index order among full ties, -1 reverses it).
getUGRanking(prefs, groups, newMember, sampled) ==
    {r \in Orderings(1..Len(groups)) :
        \A x, y \in 1..Len(groups) :
            x < y =>
                /\ ~UGBefore(prefs, groups, newMember, r[y], r[x])
                /\ (sampled # 0 /\ ~UGBefore(prefs, groups, newMember, r[x], r[y]))
                       => (IF sampled = 1 THEN r[x] < r[y] ELSE r[x] > r[y])}

\* Mutant: only the username__member combination is looked up.
canTryJoiningGroupReverseOnly(antiPrefs, group, username) ==
    \A n \in 1..Len(group) :
        ~Includes(antiPrefs, username \o "__" \o group[n])

\* Mutant: only the member__username combination is looked up.
canTryJoiningGroupOneOrder(antiPrefs, group, username) ==
    \A n \in 1..Len(group) :
        ~Includes(antiPrefs, group[n] \o "__" \o username)

canTryJoiningGroup(antiPrefs, group, username) ==
    \A n \in 1..Len(group) :
        /\ ~Includes(antiPrefs, group[n] \o "__" \o username)
        /\ ~Includes(antiPrefs, username \o "__" \o group[n])

\* Requires a preference entry for every member of group.
getGUScore(prefs, group, member) ==
    SumSeq([n \in 1..Len(group) |->
               IF Includes(prefs[group[n]], member)
               THEN getMultiplier(member) * getMultiplier(group[n]) ELSE 0])

\* Mutant: among equal scores the newer member goes first.
GUAheadNewerFirst(prefs, group, m, n) ==
    \/ getGUScore(prefs, group, group[m]) > getGUScore(prefs, group, group[n])
    \/ getGUScore(prefs, group, group[m]) = getGUScore(prefs, group, group[n]) /\ m > n

\* Sort by score descending, then by index ascending: a total order, so the
\* result is unique.  Position p holds the member with exactly p - 1 members
\* ahead of it.
GUAhead(prefs, group, m, n) ==
    LET sm == getGUScore(prefs, group, group[m])
        sn == getGUScore(prefs, group, group[n])
    IN  sm > sn \/ (sm = sn /\ m < n)

getGURanking(prefs, group) ==
    [p \in 1..Len(group) |->
        group[CHOOSE n \in 1..Len(group) :
                 Cardinality({m \in 1..Len(group) : GUAhead(prefs, group, m, n)}) = p - 1]]

-----------------------------------------------------------------------------
(* Result statistics.                                                       *)

\* The cells <<g, n>> of the groups in the order the loops of getMinFriends
\* visit them.
RECURSIVE Cells(_, _)
Cells(groups, g) ==
    IF g > Len(groups) THEN <<>>
    ELSE [n \in 1..Len(groups[g]) |-> <<g, n>>] \o Cells(groups, g + 1)

\* Mutant: a friend of weight k is counted k times.
friendsCountWeighted(prefs, group, username) ==
    SumSeq([k \in 1..Len(group) |->
               IF Includes(prefs[username], group[k]) THEN getMultiplier(group[k]) ELSE 0])

\* currentFriendsCount for a member with a preference entry: the positions
\* of its group whose member is in its list.
friendsCount(prefs, group, username) ==
    Cardinality({k \in 1..Len(group) : Includes(prefs[username], group[k])})

\* The loops of getMinFriends from cell k on, with the running minimum and
\* the users holding it.
RECURSIVE MinFriendsFrom(_, _, _, _, _)
MinFriendsFrom(groups, prefs, cells, k, acc) ==
    IF k > Len(cells) THEN acc
    ELSE LET group == groups[cells[k][1]]
             username == group[cells[k][2]]
         IN  IF username \notin DOMAIN prefs
             THEN MinFriendsFrom(groups, prefs, cells, k + 1, acc)
             ELSE LET count == friendsCount(prefs, group, username)
                  IN  MinFriendsFrom(groups, prefs, cells, k + 1,
                          IF count = acc.minFriends
                          THEN [acc EXCEPT !.usernames = Append(@, username)]
                          ELSE IF LessThan(count, acc.minFriends)
                          THEN [minFriends |-> count, usernames |-> <<username>>]
                          ELSE acc)

getMinFriends(groups, prefs) ==
    MinFriendsFrom(groups, prefs, Cells(groups, 1), 1,
                   [minFriends |-> Infinity, usernames |-> <<>>])

\* getPercentFavorability, as the fraction <<numerator, denominator>> the
\* source divides out; <<1, 1>> is the 1 returned for an empty group.  A
\* zero denominator makes the JavaScript quotient NaN (0 / 0) or Infinity.
getPercentFavorability(group, prefs) ==
    IF Len(group) = 0 THEN <<1, 1>>
    ELSE LET currentFriendsSum ==
                 SumSeq([m \in 1..Len(group) |->
                     SumSeq([n \in 1..Len(group) |->
                         IF group[m] \in DOMAIN prefs /\ Includes(prefs[group[m]], group[n])
                         THEN getMultiplier(group[m]) * getMultiplier(group[n])
                         ELSE 0])])
         IN  <<currentFriendsSum,
               (getAllMultiplier(group) - 1) * (getAllMultiplier(group) - 1) * 2>>

IsNaN(q) == q[1] = 0 /\ q[2] = 0

\* p < q for quotients that are not NaN (numerators and denominators are
\* never negative; a zero denominator is Infinity).
QuotientLess(p, q) ==
    IF p[2] = 0 THEN FALSE
    ELSE IF q[2] = 0 THEN TRUE
    ELSE p[1] * q[2] < q[1] * p[2]

\* _.min of a list of quotients: NaN entries are passed over, the first of
\* the smallest wins; undefined (here <<0, 0>>, which the caller's negation
\* turns into NaN) when nothing is left.
RECURSIVE MinFrom(_, _, _)
MinFrom(list, k, computed) ==
    IF k > Len(list) THEN computed
    ELSE MinFrom(list, k + 1,
                 IF IsNaN(list[k]) THEN computed
                 ELSE IF IsNaN(computed) \/ QuotientLess(list[k], computed) THEN list[k]
                 ELSE computed)

min(list) == MinFrom(list, 1, <<0, 0>>)

-----------------------------------------------------------------------------
(* runAlgorithmOnce: setup.                                                 *)

\* parseInt on a token of the schedule: the value of its leading decimal
\* digits, NaN when it has none.  (Tokens here carry no whitespace, sign or
\* radix prefix.)
Digits == <<"0", "1", "2", "3", "4", "5", "6", "7", "8", "9">>

IsDigit(c) == \E d \in 1..10 : Digits[d] = c

RECURSIVE LeadingDigits(_, _)
LeadingDigits(token, n) ==
    IF n < Len(token) /\ IsDigit(SubSeq(token, n + 1, n + 1))
    THEN LeadingDigits(token, n + 1) ELSE n

RECURSIVE DecimalValue(_, _)
DecimalValue(token, n) ==
    IF n = 0 THEN 0
    ELSE 10 * DecimalValue(token, n - 1)
         + (CHOOSE d \in 1..10 : Digits[d] = SubSeq(token, n, n)) - 1

parseInt(token) ==
    IF LeadingDigits(token, 0) = 0 THEN NaN
    ELSE DecimalValue(token, LeadingDigits(token, 0))

\* .sort((a, b) => b - a): position p holds the element with p - 1 elements
\* ahead of it.  b - a is NaN when either is NaN, which the sort takes for
\* 0, leaving the two in index order.
SortDescending(list) ==
    [p \in 1..Len(list) |->
        list[CHOOSE n \in 1..Len(list) :
                Cardinality({k \in 1..Len(list) :
                    \/ list[k] # NaN /\ list[n] # NaN /\ list[k] > list[n]
                    \/ (list[k] = list[n] \/ list[k] = NaN \/ list[n] = NaN) /\ k < n})
                    = p - 1]]

\* getGroupSizes: the argument split at '-', each token parsed, the sizes
\* sorted descending.
getGroupSizes(argument) ==
    SortDescending([n \in 1..Len(argument) |-> parseInt(argument[n])])

\* The locals of one run at the top of the Phase A loop, for a shuffled
\* order and a source of _.sample values.
NewRun(order, sampled, argument) ==
    [userOrder            |-> order,
     sampled              |-> sampled,
     groupSizes           |-> getGroupSizes(argument),
     groups               |-> [g \in 1..Len(argument) |-> <<>>],
     placedUsers          |-> <<>>,
     hasUpdatedThisLoop   |-> FALSE,
     currentLoopAmounts   |-> 0,
     i                    |-> 0,
     ugRanked             |-> <<>>,
     j                    |-> 0,
     evicted              |-> <<>>,
     sizeSorted           |-> <<>>,
     pc                   |-> "phaseA"]

RunIds == DOMAIN runs

\* Mutant: the groups are one array that every run works on.
SetRunSharedGroups(t, r) ==
    /\ runs' = [u \in RunIds |-> IF u = t THEN r
                                 ELSE [runs[u] EXCEPT !.groups = r.groups]]
    /\ UNCHANGED <<inputs, progressBar, bestResult, call>>

\* A step of run t inside the two loops assigns the locals of run t.
SetRun(t, r) ==
    /\ runs' = [runs EXCEPT ![t] = r]
    /\ UNCHANGED <<inputs, progressBar, bestResult, call>>

-----------------------------------------------------------------------------
(* Phase A.                                                                 *)

\* Mutant: the user is ranked and placed again even when already placed.
StartTurnNoSkip(t) ==
    LET r == runs[t]
        username == r.userOrder[r.i + 1]
    IN  /\ r.pc = "phaseA"
        /\ r.i < Len(r.userOrder)
        /\ \E ranked \in getUGRanking(preferences, r.groups, username, r.sampled) :
               SetRun(t, [r EXCEPT !.ugRanked = ranked, !.j = 0, !.evicted = <<>>,
                                   !.pc = "ugRankLoop"])

\* Top of the for loop over userOrder (lines 613-621): a placed user is
\* skipped by `continue`, which also skips the restart check at the bottom
\* of the body; otherwise the user's groups are ranked.
StartTurn(t) ==
    LET r == runs[t]
        username == r.userOrder[r.i + 1]
    IN  /\ r.pc = "phaseA"
        /\ r.i < Len(r.userOrder)
        /\ IF Includes(r.placedUsers, username)
           THEN SetRun(t, [r EXCEPT !.i = r.i + 1])
           ELSE \E ranked \in getUGRanking(preferences, r.groups, username, r.sampled) :
                    SetRun(t, [r EXCEPT !.ugRanked = ranked, !.j = 0, !.evicted = <<>>,
                                        !.pc = "ugRankLoop"])

\* The eviction loop (lines 642-664), from index k down: what is left of
\* guRanked, who was removed (in order), and how the loop ended:
\* "self" (continue ugRankLoop), "other" (break ugRankLoop), or "none" (the
\* loop ran out).
RECURSIVE EvictAnyGender(_, _, _, _, _)
\* Mutant: members are removed from the tail whatever their gender.
EvictAnyGender(guRanked, k, currentRemovedUsers, removed, username) ==
    IF k = 0
    THEN [group |-> guRanked, removed |-> removed, outcome |-> "none"]
    ELSE IF currentRemovedUsers + getMultiplier(guRanked[k]) >= getMultiplier(username)
    THEN [group   |-> RemoveAt(guRanked, k),
          removed |-> Append(removed, guRanked[k]),
          outcome |-> IF username = guRanked[k] THEN "self" ELSE "other"]
    ELSE EvictAnyGender(RemoveAt(guRanked, k), k - 1,
                        currentRemovedUsers + getMultiplier(guRanked[k]),
                        Append(removed, guRanked[k]), username)

\* Mutant: nobody is removed from a group over its capacity.
EvictNobody(guRanked, k, currentRemovedUsers, removed, username) ==
    [group |-> guRanked, removed |-> removed, outcome |-> "other"]

RECURSIVE EvictOverweight(_, _, _, _, _)
\* Mutant: the removal goes on until the removed weight exceeds the new
\* user's weight.
EvictOverweight(guRanked, k, currentRemovedUsers, removed, username) ==
    IF k = 0
    THEN [group |-> guRanked, removed |-> removed, outcome |-> "none"]
    ELSE IF users[guRanked[k]].isMale = users[username].isMale
    THEN IF currentRemovedUsers + getMultiplier(guRanked[k]) > getMultiplier(username)
         THEN [group   |-> RemoveAt(guRanked, k),
               removed |-> Append(removed, guRanked[k]),
               outcome |-> IF username = guRanked[k] THEN "self" ELSE "other"]
         ELSE EvictOverweight(RemoveAt(guRanked, k), k - 1,
                              currentRemovedUsers + getMultiplier(guRanked[k]),
                              Append(removed, guRanked[k]), username)
    ELSE EvictOverweight(guRanked, k - 1, currentRemovedUsers, removed, username)

RECURSIVE Evict(_, _, _, _, _)
Evict(guRanked, k, currentRemovedUsers, removed, username) ==
    IF k = 0
    THEN [group |-> guRanked, removed |-> removed, outcome |-> "none"]
    ELSE IF users[guRanked[k]].isMale = users[username].isMale
    THEN LET removedUser == guRanked[k]
             weight == currentRemovedUsers + getMultiplier(removedUser)
         IN  IF weight >= getMultiplier(username)
             THEN [group   |-> RemoveAt(guRanked, k),
                   removed |-> Append(removed, removedUser),
                   outcome |-> IF username = removedUser THEN "self" ELSE "other"]
             ELSE Evict(RemoveAt(guRanked, k), k - 1, weight,
                        Append(removed, removedUser), username)
    ELSE Evict(guRanked, k - 1, currentRemovedUsers, removed, username)

RECURSIVE WithoutAll(_, _)
WithoutAll(list, removed) ==
    IF removed = <<>> THEN list
    ELSE WithoutAll(Without(list, removed[1]), Tail(removed))

\* Mutant: `continue ugRankLoop` ends the user's turn like a break.
AfterContinueBreaks(r) == "restartCheck"

\* Where the ugRankLoop goes after `continue ugRankLoop` at index j.
AfterContinue(r) ==
    IF r.j + 1 < Len(r.ugRanked) THEN "ugRankLoop" ELSE "restartCheck"

\* One iteration of ugRankLoop (lines 623-669).
TryGroup(t) ==
    LET r == runs[t]
        username == r.userOrder[r.i + 1]
        groupID == r.ugRanked[r.j + 1]
        placed == Append(r.placedUsers, username)
    IN  /\ r.pc = "ugRankLoop"
        /\ r.j < Len(r.ugRanked)
        /\ IF ~canTryJoiningGroup(antiPreferences, r.groups[groupID], username)
           THEN SetRun(t, [r EXCEPT !.j = r.j + 1, !.evicted = <<>>,
                                    !.pc = AfterContinue(r)])
           ELSE \E guRanked \in {getGURanking(preferences,
                                       groupWithNew(r.groups[groupID], username))} :
                IF hasMaximum(guRanked, users[username].isMale, r.groupSizes[groupID],
                              FloorHalf(r.groupSizes[groupID]), oneGenderGroups, users)
                THEN \E ev \in {Evict(guRanked, Len(guRanked), 0, <<>>, username)} :
                     SetRun(t, [r EXCEPT
                         !.groups[groupID] = ev.group,
                         !.placedUsers = WithoutAll(placed, ev.removed),
                         !.evicted = ev.removed,
                         !.j = IF ev.outcome = "self" THEN r.j + 1 ELSE r.j,
                         !.hasUpdatedThisLoop = IF ev.outcome = "self" THEN @ ELSE TRUE,
                         !.pc = IF ev.outcome = "self" THEN AfterContinue(r)
                                ELSE "restartCheck"])
                ELSE SetRun(t, [r EXCEPT
                         !.groups[groupID] = guRanked,
                         !.placedUsers = placed,
                         !.evicted = <<>>,
                         !.hasUpdatedThisLoop = TRUE,
                         !.pc = "restartCheck"])

\* Mutant: the ceiling is compared with <=, allowing one restart more.
RestartCheckOffByOne(t) ==
    LET r == runs[t]
    IN  /\ r.pc = "restartCheck"
        /\ IF /\ r.i = Len(r.userOrder) - 1
              /\ Len(r.placedUsers) < Len(r.userOrder)
              /\ r.hasUpdatedThisLoop
              /\ r.currentLoopAmounts <= MOVE_ON_COUNT
           THEN SetRun(t, [r EXCEPT !.hasUpdatedThisLoop = FALSE, !.i = 0,
                                    !.currentLoopAmounts = r.currentLoopAmounts + 1,
                                    !.pc = "phaseA"])
           ELSE SetRun(t, [r EXCEPT !.i = r.i + 1, !.pc = "phaseA"])

\* Bottom of the for body (lines 674-678) and the loop's i++.
RestartCheck(t) ==
    LET r == runs[t]
    IN  /\ r.pc = "restartCheck"
        /\ IF /\ r.i = Len(r.userOrder) - 1
              /\ Len(r.placedUsers) < Len(r.userOrder)
              /\ r.hasUpdatedThisLoop
              /\ r.currentLoopAmounts < MOVE_ON_COUNT
           THEN SetRun(t, [r EXCEPT !.hasUpdatedThisLoop = FALSE, !.i = 0,
                                    !.currentLoopAmounts = r.currentLoopAmounts + 1,
                                    !.pc = "phaseA"])
           ELSE SetRun(t, [r EXCEPT !.i = r.i + 1, !.pc = "phaseA"])

\* The Phase A loop exits (i = userOrder.length); Phase B starts at i = 0.
EnterPhaseB(t) ==
    LET r == runs[t]
    IN  /\ r.pc = "phaseA"
        /\ r.i >= Len(r.userOrder)
        /\ SetRun(t, [r EXCEPT !.i = 0, !.j = 0, !.evicted = <<>>, !.pc = "phaseB"])

-----------------------------------------------------------------------------
(* Phase B.                                                                 *)

\* list[n] for a 0-based n: undefined past the end of the array.
ArrayGet(list, n) == IF n < Len(list) THEN list[n + 1] ELSE Undefined

\* The second iteratee of _.sortBy (lines 697-703).  Its argument is the
\* zipped pair [group, size], not the group, so getUGScore walks the two
\* elements of the pair; neither is a string, so neither can be in a
\* preference list: the usernames it sees are none.
ZipUsernames(group, size) == <<>>

friendsKey(prefs, group, size, username) ==
    IF username \notin DOMAIN prefs THEN 0
    ELSE getUGScore(prefs, ZipUsernames(group, size), username)

\* The first iteratee (lines 694-696).
spotsKey(group, size) ==
    IF size = NaN THEN NaN ELSE getAllMultiplier(group) - size

\* _.sortBy is stable and ascending on the keys in turn: group a comes
\* before group b.  A NaN first key sorts after every number, and two of
\* them stay in index order.
SortedBefore(prefs, groups, groupSizes, username, a, b) ==
    LET ka == spotsKey(groups[a], groupSizes[a])
        kb == spotsKey(groups[b], groupSizes[b])
        fa == friendsKey(prefs, groups[a], groupSizes[a], username)
        fb == friendsKey(prefs, groups[b], groupSizes[b], username)
    IN  \/ ka # NaN /\ kb = NaN
        \/ ka # NaN /\ kb # NaN /\ ka < kb
        \/ ka = NaN /\ kb = NaN /\ a < b
        \/ ka # NaN /\ ka = kb /\ fa < fb
        \/ ka # NaN /\ ka = kb /\ fa = fb /\ a < b

\* sizeSortedGroups, as the ids of the groups in sorted order.
sizeSortedGroups(prefs, groups, groupSizes, username) ==
    [p \in 1..Len(groups) |->
        CHOOSE a \in 1..Len(groups) :
            Cardinality({b \in 1..Len(groups) :
                SortedBefore(prefs, groups, groupSizes, username, b, a)}) = p - 1]

\* Lines 710-711, for the 0-based scan index scanJ over n groups: the caps
\* are read from groupSizes at the scan index itself.
effectiveGenderSize(groupSizes, scanJ) ==
    IF scanJ < Len(groupSizes) THEN FloorHalf(ArrayGet(groupSizes, scanJ)) ELSE Infinity

\* Mutant: the third pass keeps the size cap of the group scanned.
effectiveGroupSizeCapped(groupSizes, scanJ) ==
    ArrayGet(groupSizes, scanJ % Len(groupSizes))

effectiveGroupSize(groupSizes, scanJ) ==
    IF scanJ < Len(groupSizes) * 2 THEN ArrayGet(groupSizes, scanJ) ELSE Infinity

\* The scan index passes both checks of lines 713-719 for the user.
Accepts(r, sorted, username, scanJ) ==
    LET n == Len(sorted)
        group == r.groups[sorted[(scanJ % n) + 1]]
    IN  /\ canTryJoiningGroup(antiPreferences, group, username)
        /\ ~hasMaximum(group, users[username].isMale,
                       effectiveGroupSize(r.groupSizes, scanJ),
                       effectiveGenderSize(r.groupSizes, scanJ),
                       oneGenderGroups, users)

\* One iteration of allUsernamesLoop (lines 684-729): a placed user is
\* skipped; any other is pushed onto the first group of the three passes
\* that accepts it, or left out when none does.  j keeps the scan index at
\* which the inner loop was left.
PhaseBTurn(t) ==
    LET r == runs[t]
        allUsernames == Keys(users)
        username == allUsernames[r.i + 1]
    IN  /\ r.pc = "phaseB"
        /\ r.i < Len(allUsernames)
        /\ IF Includes(r.placedUsers, username)
           THEN SetRun(t, [r EXCEPT !.i = r.i + 1])
           ELSE \E sorted \in {sizeSortedGroups(preferences, r.groups, r.groupSizes,
                                                username)} :
                \E hits \in {{scanJ \in 0..(Len(sorted) * 3 - 1) :
                                 Accepts(r, sorted, username, scanJ)}} :
                IF hits = {}
                THEN SetRun(t, [r EXCEPT !.i = r.i + 1, !.j = Len(sorted) * 3,
                                         !.sizeSorted = sorted])
                ELSE \E first \in {scanJ \in hits : \A other \in hits : scanJ <= other} :
                     SetRun(t, [r EXCEPT
                         !.i = r.i + 1, !.j = first, !.sizeSorted = sorted,
                         !.groups[sorted[(first % Len(sorted)) + 1]] = Append(@, username)])

\* The loop is over: the run ticks the progress bar and returns its result
\* (lines 731-741).
Finish(t) ==
    LET r == runs[t]
    IN  /\ r.pc = "phaseB"
        /\ r.i >= Len(Keys(users))
        /\ runs' = [runs EXCEPT ![t] = [r EXCEPT !.pc = "done"]]
        /\ progressBar' = progressBar + 1
        /\ UNCHANGED <<inputs, bestResult, call>>

-----------------------------------------------------------------------------
(* runMany: the selection among the collected results.                      *)

\* compareAscending of _.sortBy on two numbers, either possibly Infinity.
compareAscending(value, other) ==
    IF value = other THEN 0 ELSE IF LessThan(value, other) THEN -1 ELSE 1

\* Mutant: the third key is compared without its negation.
compareNotNegated(p, q) ==
    IF IsNaN(p) THEN 1
    ELSE IF IsNaN(q) THEN -1
    ELSE IF QuotientLess(p, q) THEN -1
    ELSE IF QuotientLess(q, p) THEN 1
    ELSE 0

\* compareAscending on the negations -p and -q of two _.min values.  NaN
\* (the negation of undefined) is not reflexive: it sorts after everything,
\* itself included.
compareNegated(p, q) ==
    IF IsNaN(p) THEN 1
    ELSE IF IsNaN(q) THEN -1
    ELSE IF QuotientLess(q, p) THEN -1
    ELSE IF QuotientLess(p, q) THEN 1
    ELSE 0

\* The three iteratees of the sortBy call (the third before its negation).
minFriendsKey(r) == getMinFriends(r.groups, preferences).minFriends

usernamesKey(r) == Len(getMinFriends(r.groups, preferences).usernames)

favorabilityKey(r) ==
    min([g \in 1..Len(r.groups) |-> getPercentFavorability(r.groups[g], preferences)])

\* compareMultiple of _.sortBy: the first criterion that tells results t and
\* u apart decides, and the index does when none does.
compareMultiple(t, u) ==
    LET first == compareAscending(minFriendsKey(runs[t]), minFriendsKey(runs[u]))
        second == compareAscending(usernamesKey(runs[t]), usernamesKey(runs[u]))
        third == compareNegated(favorabilityKey(runs[t]), favorabilityKey(runs[u]))
    IN  IF first # 0 THEN first
        ELSE IF second # 0 THEN second
        ELSE IF third # 0 THEN third
        ELSE t - u

\* Element [0] of the sorted results: each result in turn is compared with
\* the head so far and takes its place when it sorts before it.
RECURSIVE SortedHead(_, _)
SortedHead(t, head) ==
    IF t \notin RunIds THEN head
    ELSE SortedHead(t + 1, IF compareMultiple(t, head) < 0 THEN t ELSE head)

\* The callback of Promise.all: every run has resolved, the results are
\* sorted and the first one is handed to output.
SelectBest ==
    /\ bestResult = 0
    /\ RunIds # {}
    /\ \A t \in RunIds : runs[t].pc = "done"
    /\ bestResult' = SortedHead(2, 1)
    /\ UNCHANGED <<inputs, runs, progressBar, call>>

-----------------------------------------------------------------------------
(* Bounds of the model and the inputs drawn within them.                    *)

MaxPrefLen == 1      \* longest preference list of a run's inputs
MaxSize == 2         \* largest group size of a schedule

Universe == {"a", "b", "c--x2"}

\* Lists of at most n distinct usernames from S, in key order.
NameLists(S, n) ==
    {Keys([k \in D |-> TRUE]) : D \in {D \in SUBSET S : Cardinality(D) <= n}}

\* Preference maps over the users in D: nobody lists themselves.
PreferenceMaps(D, n) ==
    {p \in [D -> NameLists(Universe, n)] : \A u \in D : ~Includes(p[u], u)}

\* Who filled in preferences: everybody, everybody but b, or nobody.
EntrySets == {Universe, Universe \ {"b"}, {}}

\* The anti-preference lists tried: none, a pair in key order, a pair in
\* the other order.
AntiLists == {<<>>, <<"a__b">>, <<"c--x2__a">>}

\* Schedules of one or two groups of size 1 or MaxSize; the tokens ascend,
\* so getGroupSizes has to reorder them.
SizeArguments ==
    {<<"1">>, <<ToString(MaxSize)>>, <<"1", "1">>, <<"1", ToString(MaxSize)>>,
     <<ToString(MaxSize), ToString(MaxSize)>>}

\* Gender flags and the one-gender mode: an all-male population with the
\* mode on, or a mixed one (b or c--x2 female) with the mode off.
Male(females) == [u \in Universe |-> [isMale |-> u \notin females]]

Populations ==
    {<<Male({}), TRUE>>, <<Male({"b"}), FALSE>>, <<Male({"c--x2"}), FALSE>>}

NoCall == [fn |-> "none"]

Init ==
    /\ \E population \in Populations :
           users = population[1] /\ oneGenderGroups = population[2]
    /\ \E D \in EntrySets : preferences \in PreferenceMaps(D, MaxPrefLen)
    /\ antiPreferences \in AntiLists
    /\ groupSizesArgument \in SizeArguments
    /\ \E order \in Orderings(DOMAIN preferences) :
           runs = [t \in {1} |-> NewRun(order, 0, groupSizesArgument)]
    /\ progressBar = 0
    /\ bestResult = 0
    /\ call = NoCall

\* The end-to-end scenario: universe {a, b, c, d}, all male, a and b
\* listing each other, c and d listing nobody (an empty list, or no entry at
\* all), no anti-preferences, schedule "2-2", either setting of the
\* one-gender flag, any shuffled order.
ScenarioUsers == {"a", "b", "c", "d"}

ScenarioPreferences ==
    {[u \in D |-> IF u = "a" THEN <<"b">> ELSE IF u = "b" THEN <<"a">> ELSE <<>>]
        : D \in {ScenarioUsers, {"a", "b"}}}

InitScenario ==
    /\ users = [u \in ScenarioUsers |-> [isMale |-> TRUE]]
    /\ preferences \in ScenarioPreferences
    /\ antiPreferences = <<>>
    /\ groupSizesArgument = <<"2", "2">>
    /\ oneGenderGroups \in BOOLEAN
    /\ \E order \in Orderings(DOMAIN preferences) :
           runs = [t \in {1} |-> NewRun(order, 0, groupSizesArgument)]
    /\ progressBar = 0
    /\ bestResult = 0
    /\ call = NoCall

\* Collected results: every way of putting each user into one of two
\* groups, for one up to MaxRuns runs.
MaxRuns == 2         \* most runs of a runMany call

Partitions ==
    {[g \in 1..2 |-> SelectSeq(KeyOrder, LAMBDA u : u \in Universe /\ f[u] = g)]
        : f \in [Universe -> 1..2]}

DoneRun(groups) ==
    [NewRun(<<>>, 0, groupSizesArgument) EXCEPT !.groups = groups, !.pc = "done"]

InitMany ==
    /\ users = Male({})
    /\ oneGenderGroups = FALSE
    /\ \E D \in EntrySets : preferences \in PreferenceMaps(D, MaxPrefLen)
    /\ antiPreferences = <<>>
    /\ groupSizesArgument = <<ToString(MaxSize), ToString(MaxSize)>>
    /\ \E runAmount \in 1..MaxRuns :
           /\ runs \in [1..runAmount -> {DoneRun(groups) : groups \in Partitions}]
           /\ progressBar = runAmount
    /\ bestResult = 0
    /\ call = NoCall

NextMany == SelectBest

SpecMany == InitMany /\ [][NextMany]_vars

-----------------------------------------------------------------------------
(* The helper functions called on their own.                                *)

\* A call that has not returned yet.
Pending(fn) == call.fn = fn /\ "ret" \notin DOMAIN call

CallGetMultiplier ==
    /\ Pending("getMultiplier")
    /\ call' = [fn |-> call.fn, username |-> call.username,
                ret |-> getMultiplier(call.username)]
    /\ UNCHANGED <<inputs, runs, progressBar, bestResult>>

CallGetAllMultiplier ==
    /\ Pending("getAllMultiplier")
    /\ call' = [fn |-> call.fn, usernames |-> call.usernames,
                ret |-> getAllMultiplier(call.usernames)]
    /\ UNCHANGED <<inputs, runs, progressBar, bestResult>>

CallCanTryJoiningGroup ==
    /\ Pending("canTryJoiningGroup")
    /\ call' = [fn |-> call.fn, group |-> call.group, username |-> call.username,
                ret |-> canTryJoiningGroup(antiPreferences, call.group, call.username)]
    /\ UNCHANGED <<inputs, runs, progressBar, bestResult>>

CallGetPercentFavorability ==
    /\ Pending("getPercentFavorability")
    /\ call' = [fn |-> call.fn, group |-> call.group,
                ret |-> getPercentFavorability(call.group, preferences)]
    /\ UNCHANGED <<inputs, runs, progressBar, bestResult>>

CallGetMinFriends ==
    /\ Pending("getMinFriends")
    /\ call' = call @@ [ret |-> getMinFriends(call.groups, preferences)]
    /\ UNCHANGED <<inputs, runs, progressBar, bestResult>>

CallHasMaximum ==
    /\ Pending("hasMaximum")
    /\ call' = call @@ [ret |-> hasMaximum(call.group, call.isMale, call.maxAmount,
                                           call.maxAmountSame, call.oneGender,
                                           call.users)]
    /\ UNCHANGED <<inputs, runs, progressBar, bestResult>>

CallGetGURanking ==
    /\ Pending("getGURanking")
    /\ call' = [fn |-> call.fn, group |-> call.group,
                ret |-> getGURanking(preferences, call.group)]
    /\ UNCHANGED <<inputs, runs, progressBar, bestResult>>

CallGetUGRanking ==
    /\ Pending("getUGRanking")
    /\ \E ranked \in getUGRanking(preferences, call.groups, call.newMember, 0) :
           call' = [fn |-> call.fn, groups |-> call.groups,
                    newMember |-> call.newMember, ret |-> ranked]
    /\ UNCHANGED <<inputs, runs, progressBar, bestResult>>

MaxNameLen == 5      \* longest username handed to getMultiplier
MaxListLen == 2      \* longest list handed to getAllMultiplier
MaxAntiLen == 2      \* longest anti-preference list handed to canTryJoiningGroup

NameChars == {"a", "-", "x", "1", "2", "3", "4", "5", "9"}

\* Every string of at most n characters.
RECURSIVE Names(_)
Names(n) ==
    IF n = 0 THEN {""}
    ELSE LET shorter == Names(n - 1)
         IN  shorter \cup {s \o c : s \in shorter, c \in NameChars}

WeightedNames == {"a", "b--x2", "c--x3", "d--x4", "e--x5", "f--x9"}

\* Every list of at most n elements of S.
ListsUpTo(S, n) == UNION {[1..m -> S] : m \in 0..n}

\* Groups: the users of a subset of the universe, in any order.
Groups == UNION {Orderings(D) : D \in SUBSET Universe}

AntiStrings == {x \o "__" \o y : x, y \in Universe}

\* The caps handed to hasMaximum: up to twice the largest target size.
Caps == 0..(MaxSize * 2)

\* Every list of at most as many groups as there are users, the groups
\* holding members of D, nobody twice.
GroupLists(D) ==
    {groups \in UNION {[1..m -> UNION {Orderings(E) : E \in SUBSET D}] :
                          m \in 1..Cardinality(Universe)} :
        \A g, h \in 1..Len(groups) :
            g # h => Range(groups[g]) \cap Range(groups[h]) = {}}

InitCalls ==
    /\ users = Male({})
    /\ oneGenderGroups = FALSE
    /\ groupSizesArgument = <<ToString(MaxSize)>>
    /\ runs = <<>>
    /\ progressBar = 0
    /\ bestResult = 0
    /\ \/ /\ preferences = <<>>
          /\ antiPreferences = <<>>
          /\ \/ \E username \in Names(MaxNameLen) :
                    call = [fn |-> "getMultiplier", username |-> username]
             \/ \E usernames \in ListsUpTo(WeightedNames, MaxListLen) :
                    call = [fn |-> "getAllMultiplier", usernames |-> usernames]
       \/ /\ preferences = <<>>
          /\ antiPreferences \in ListsUpTo(AntiStrings, MaxAntiLen)
          /\ \E group \in Groups : \E username \in Universe :
                 call = [fn |-> "canTryJoiningGroup", group |-> group,
                         username |-> username]
       \/ /\ \E D \in SUBSET Universe : preferences \in PreferenceMaps(D, MaxPrefLen)
          /\ antiPreferences = <<>>
          /\ \E group \in Groups :
                 call = [fn |-> "getPercentFavorability", group |-> group]
       \/ /\ preferences \in PreferenceMaps(Universe, MaxPrefLen)
          /\ antiPreferences = <<>>
          /\ \E group \in Groups :
                 call = [fn |-> "getGURanking", group |-> group]
       \/ /\ \E D \in SUBSET Universe : preferences \in PreferenceMaps(D, MaxPrefLen)
          /\ antiPreferences = <<>>
          /\ \E groups \in GroupLists(Universe) :
                 call = [fn |-> "getMinFriends", groups |-> groups]
       \/ /\ preferences = <<>>
          /\ antiPreferences = <<>>
          /\ \E group \in Groups : \E isMale, oneGender \in BOOLEAN :
             \E maxAmount, maxAmountSame \in Caps : \E females \in SUBSET Universe :
                 call = [fn |-> "hasMaximum", group |-> group, isMale |-> isMale,
                         maxAmount |-> maxAmount, maxAmountSame |-> maxAmountSame,
                         oneGender |-> oneGender, users |-> Male(females)]
       \/ /\ antiPreferences = <<>>
          /\ \E newMember \in Universe :
                 /\ preferences \in PreferenceMaps({newMember}, MaxPrefLen)
                 /\ \E groups \in GroupLists(Universe \ {newMember}) :
                        call = [fn |-> "getUGRanking", groups |-> groups,
                                newMember |-> newMember]

NextCalls ==
    \/ CallGetMultiplier
    \/ CallGetAllMultiplier
    \/ CallCanTryJoiningGroup
    \/ CallGetPercentFavorability
    \/ CallGetUGRanking
    \/ CallGetGURanking
    \/ CallHasMaximum
    \/ CallGetMinFriends

SpecCalls == InitCalls /\ [][NextCalls]_vars

\* runMany with two runs whose callbacks are taken apart into their loop
\* iterations and interleaved (a JavaScript callback runs to completion, so
\* the code's own schedules are among these).  Only a and b have
\* preferences; each run has its own shuffled order and a fixed value for
\* every _.sample call.
ParSizeArguments ==
    {<<"1", ToString(MaxSize)>>, <<ToString(MaxSize), ToString(MaxSize)>>}

InitPar ==
    /\ \E population \in Populations :
           users = population[1] /\ oneGenderGroups = population[2]
    /\ preferences \in PreferenceMaps({"a", "b"}, MaxPrefLen)
    /\ antiPreferences \in AntiLists
    /\ groupSizesArgument \in ParSizeArguments
    /\ \E orders \in [1..2 -> Orderings(DOMAIN preferences)] :
       \E samples \in [1..2 -> {-1, 1}] :
           runs = [t \in 1..2 |-> NewRun(orders[t], samples[t], groupSizesArgument)]
    /\ progressBar = 0
    /\ bestResult = 0
    /\ call = NoCall

NextPar ==
    \/ \E t \in RunIds : StartTurn(t)
    \/ \E t \in RunIds : TryGroup(t)
    \/ \E t \in RunIds : RestartCheck(t)
    \/ \E t \in RunIds : EnterPhaseB(t)
    \/ \E t \in RunIds : PhaseBTurn(t)
    \/ \E t \in RunIds : Finish(t)
    \/ SelectBest

SpecPar == InitPar /\ [][NextPar]_vars

\* Schedules with a token that is not a number: no digit at all, digits
\* followed by a letter, or the empty token of "2--1".
MalformedArguments ==
    {<<"x">>, <<ToString(MaxSize), "x">>, <<"x", "1">>,
     <<ToString(MaxSize) \o "x", "1">>, <<ToString(MaxSize), "", "1">>}

InitSchedule ==
    /\ \E population \in Populations :
           users = population[1] /\ oneGenderGroups = population[2]
    /\ \E D \in EntrySets : preferences \in PreferenceMaps(D, MaxPrefLen)
    /\ antiPreferences = <<>>
    /\ groupSizesArgument \in MalformedArguments
    /\ \E order \in Orderings(DOMAIN preferences) :
           runs = [t \in {1} |-> NewRun(order, 0, groupSizesArgument)]
    /\ progressBar = 0
    /\ bestResult = 0
    /\ call = NoCall

Next ==
    \/ \E t \in RunIds : StartTurn(t)
    \/ \E t \in RunIds : TryGroup(t)
    \/ \E t \in RunIds : RestartCheck(t)
    \/ \E t \in RunIds : EnterPhaseB(t)
    \/ \E t \in RunIds : PhaseBTurn(t)
    \/ \E t \in RunIds : Finish(t)

Spec == Init /\ [][Next]_vars

SpecScenario == InitScenario /\ [][Next]_vars

SpecSchedule == InitSchedule /\ [][Next]_vars

-----------------------------------------------------------------------------
(* Vocabulary of the properties.                                            *)

Done(t) == runs[t].pc = "done"

\* u is a member of some group of run record r.
InGroup(r, u) == \E g \in 1..Len(r.groups) : Includes(r.groups[g], u)

\* x and y are members of the same group of run record r.
Together(r, x, y) ==
    \E g \in 1..Len(r.groups) : Includes(r.groups[g], x) /\ Includes(r.groups[g], y)

\* The two usernames form an anti-preference pair, in either order.
Excluded(x, y) ==
    \/ Includes(antiPreferences, x \o "__" \o y)
    \/ Includes(antiPreferences, y \o "__" \o x)

\* How many times u occurs in the groups of run record r.
Occurrences(r, u) ==
    SumSeq([g \in 1..Len(r.groups) |->
               Cardinality({n \in 1..Len(r.groups[g]) : r.groups[g][n] = u})])

-----------------------------------------------------------------------------
\* The scenario of the exclusion rule: a__b is listed, a and b prefer only
\* each other, and the schedule is 1-1.
ExclusionScenario ==
    /\ antiPreferences = <<"a__b">>
    /\ groupSizesArgument = <<"1", "1">>
    /\ {"a", "b"} \subseteq DOMAIN preferences
    /\ preferences["a"] = <<"b">> /\ preferences["b"] = <<"a">>

(* C1: in every state of a trial (Phase A, Phase B and the result), no     *)
(* group holds two identities X and Y with X__Y or Y__X in the             *)
(* anti-preference list; and when a__b is listed, a and b prefer only each *)
(* other and the schedule is 1-1, a finished trial has a and b in          *)
(* different groups.                                                        *)
NoExcludedPairShares ==
    \A t \in RunIds :
        /\ \A g \in 1..Len(runs[t].groups) :
               \A m, n \in 1..Len(runs[t].groups[g]) :
                   m # n => ~Excluded(runs[t].groups[g][m], runs[t].groups[g][n])
        /\ (Done(t) /\ ExclusionScenario) =>
               /\ InGroup(runs[t], "a") /\ InGroup(runs[t], "b")
               /\ ~Together(runs[t], "a", "b")

\* A finished trial in which both identities of a listed pair are placed,
\* one of them by Phase A and one by Phase B.
ExcludedPairBothPlaced ==
    \E t \in RunIds : \E x, y \in DOMAIN users :
        /\ Done(t)
        /\ x # y
        /\ Excluded(x, y)
        /\ InGroup(runs[t], x) /\ InGroup(runs[t], y)
        /\ Includes(runs[t].placedUsers, x)
        /\ ~Includes(runs[t].placedUsers, y)

(* C2: in every state of a trial, every identity occurs at most once in    *)
(* all the groups together.                                                 *)
AtMostOneGroup ==
    \A t \in RunIds : \A u \in DOMAIN users : Occurrences(runs[t], u) <= 1

\* A finished trial that evicted somebody, restarted the pass and placed
\* somebody in Phase B.
EvictedRestartedAndFellBack ==
    \E t \in RunIds :
        /\ Done(t)
        /\ runs[t].currentLoopAmounts >= 1
        /\ \E u \in DOMAIN users :
               InGroup(runs[t], u) /\ ~Includes(runs[t].placedUsers, u)

\* The user Phase B has at hand in run record r.
PhaseBUser(r) == Keys(users)[r.i + 1]

\* Run t makes its Phase B turn for a user that Phase A left unplaced.
FallbackTurn(t) ==
    /\ runs[t].pc = "phaseB"
    /\ runs'[t].pc = "phaseB"
    /\ runs'[t].i = runs[t].i + 1
    /\ ~Includes(runs[t].placedUsers, PhaseBUser(runs[t]))

\* No member of the group forms an anti-preference pair with u.
ConflictFree(group, u) == \A n \in 1..Len(group) : ~Excluded(group[n], u)

(* C5: a user processed by Phase B stays out of every group only if, at    *)
(* that moment, every group held a member forming an anti-preference pair  *)
(* with it; a user with at least one conflict-free group is placed.        *)
FallbackLeavesOutOnlyExcluded ==
    [][\A t \in RunIds :
          FallbackTurn(t) =>
              (InGroup(runs'[t], PhaseBUser(runs[t]))
                  <=> \E g \in 1..Len(runs[t].groups) :
                          ConflictFree(runs[t].groups[g], PhaseBUser(runs[t])))]_vars

\* A finished trial with a user in no group, and another that Phase B
\* placed into a group already at its target size.
LeftOutAndOverfilled ==
    \E t \in RunIds : \E u, v \in DOMAIN users :
        /\ Done(t)
        /\ ~InGroup(runs[t], u)
        /\ \E g \in 1..Len(runs[t].groups) :
               /\ Includes(runs[t].groups[g], v)
               /\ ~Includes(runs[t].placedUsers, v)
               /\ getAllMultiplier(runs[t].groups[g]) > runs[t].groupSizes[g]

-----------------------------------------------------------------------------
(* Termination.                                                             *)

\* Where a run stands, as a tuple that every step of the run lowers in
\* lexicographic order: phase, restarts left, users left in the pass,
\* stage of the turn, ranked groups left; in Phase B, users left to scan.
Stage(pc) == IF pc = "phaseA" THEN 2 ELSE IF pc = "ugRankLoop" THEN 1 ELSE 0

Progress(r) ==
    IF r.pc = "done" THEN <<0, 0, 0, 0, 0>>
    ELSE IF r.pc = "phaseB" THEN <<1, 0, Cardinality(DOMAIN users) - r.i, 0, 0>>
    ELSE <<2, MOVE_ON_COUNT - r.currentLoopAmounts, Len(r.userOrder) - r.i,
           Stage(r.pc), Len(r.ugRanked) - r.j>>

LexLess(a, b) ==
    \E n \in 1..Len(a) : a[n] < b[n] /\ \A m \in 1..(n - 1) : a[m] = b[m]

(* C6: every trial terminates: each step of a run lowers its progress      *)
(* tuple, whose entries never go below zero, so that Phase A restarts at   *)
(* most MOVE_ON_COUNT = 100 times (at most 101 passes) and Phase B scans   *)
(* the universe once.                                                       *)
TrialTerminates ==
    [][\A t \in RunIds :
          /\ runs'[t] # runs[t] =>
                 \A before \in {Progress(runs[t])} : \A after \in {Progress(runs'[t])} :
                     /\ LexLess(after, before)
                     /\ \A n \in 1..5 : after[n] >= 0
          /\ runs'[t].currentLoopAmounts <= MOVE_ON_COUNT
          /\ runs'[t].pc = "phaseB" => runs'[t].i <= Cardinality(DOMAIN users)]_vars

\* A finished trial whose Phase A used all its 100 restarts.
AllRestartsUsed ==
    \E t \in RunIds : Done(t) /\ runs[t].currentLoopAmounts = MOVE_ON_COUNT

-----------------------------------------------------------------------------
(* The end-to-end scenario.                                                 *)

\* The outcome the scenario expects of a finished run: a and b share a
\* group, c and d were placed by Phase B and share the other group, and
\* min_friends is 1.
ScenarioOutcome(r) ==
    /\ Together(r, "a", "b")
    /\ Together(r, "c", "d")
    /\ ~Together(r, "a", "c")
    /\ ~Includes(r.placedUsers, "c") /\ ~Includes(r.placedUsers, "d")
    /\ getMinFriends(r.groups, preferences).minFriends = 1

-----------------------------------------------------------------------------
(* The selection of runMany.                                                *)

(* C3 as stated: the result runMany selects has a minFriends value that is *)
(* the maximum of minFriends over all the collected results.                *)
SelectsMaximumMinFriends ==
    bestResult # 0 =>
        \A t \in RunIds :
            ~LessThan(minFriendsKey(runs[bestResult]), minFriendsKey(runs[t]))

-----------------------------------------------------------------------------
(* The helper functions.                                                    *)

\* The call of fn has returned.
Returned(fn) == call.fn = fn /\ "ret" \in DOMAIN call

\* s ends with the suffix "--x" followed by the digit of k.
HasWeightSuffix(s, k) ==
    \E n \in 1..Len(s) :
        SubSeq(s, n, Len(s)) = "--x" \o <<"1", "2", "3", "4", "5">>[k]

(* C8 as stated: the favorability of an empty group is exactly 1, and for  *)
(* every non-empty group whose members have preference lists that do not   *)
(* contain themselves it is a quotient with a nonzero denominator and a    *)
(* value from 0 to 1.                                                       *)
FavorabilityInUnitInterval ==
    Returned("getPercentFavorability") =>
        /\ call.group = <<>> => call.ret = <<1, 1>>
        /\ (call.group # <<>> /\ Range(call.group) \subseteq DOMAIN preferences) =>
               /\ call.ret[2] # 0
               /\ 0 <= call.ret[1]
               /\ call.ret[1] <= call.ret[2]

(* C9: canTryJoiningGroup reports a conflict for a group and a candidate   *)
(* exactly when some member m has m__candidate or candidate__m in the     *)
(* anti-preference list; so when A__B is listed, a group holding A        *)
(* conflicts with candidate B and a group holding B with candidate A.     *)
ConflictIsSymmetric ==
    Returned("canTryJoiningGroup") =>
        /\ ~call.ret <=> \E n \in 1..Len(call.group) :
                             Excluded(call.group[n], call.username)
        /\ \A A, B \in Universe :
               Includes(antiPreferences, A \o "__" \o B) =>
                   /\ (Includes(call.group, A) /\ call.username = B) => ~call.ret
                   /\ (Includes(call.group, B) /\ call.username = A) => ~call.ret

\* A conflict reported on the strength of candidate__member alone.
ConflictInReverseOrder ==
    /\ Returned("canTryJoiningGroup")
    /\ ~call.ret
    /\ \A n \in 1..Len(call.group) :
           ~Includes(antiPreferences, call.group[n] \o "__" \o call.username)

-----------------------------------------------------------------------------
(* Independence of the runs.                                                *)

\* Runs t and u were given the same shuffled order and the same value for
\* every _.sample call.
SameChoices(t, u) ==
    /\ runs[t].userOrder = runs[u].userOrder
    /\ runs[t].sampled = runs[u].sampled
    /\ runs[t].sampled # 0

\* The point of its execution a run record is at; a run passes each point
\* at most once.
Position(r) ==
    IF r.pc = "done" THEN <<"done", 0, 0, 0>>
    ELSE IF r.pc = "phaseB" THEN <<"phaseB", 0, r.i, 0>>
    ELSE <<r.pc, r.currentLoopAmounts, r.i, IF r.pc = "ugRankLoop" THEN r.j ELSE 0>>

(* C7: no step of a run changes the preference map, the user details or    *)
(* the anti-preference list, and a step of one run leaves the locals of    *)
(* every other run as they were; two runs with the same random choices     *)
(* have the same locals whenever they are at the same point, whatever the  *)
(* other has done meanwhile, and so return the same result under every     *)
(* interleaving.                                                            *)
TrialsShareNoState ==
    [][/\ inputs' = inputs
       /\ \A t \in RunIds :
              runs'[t] # runs[t] => \A u \in RunIds \ {t} : runs'[u] = runs[u]
       /\ \A t, u \in RunIds :
              (SameChoices(t, u) /\ Position(runs'[t]) = Position(runs'[u]))
                  => runs'[t] = runs'[u]]_vars

\* Two runs with the same random choices, one finished and the other still
\* in Phase A after an eviction and a restart.
TwinsApart ==
    \E t, u \in RunIds :
        /\ SameChoices(t, u)
        /\ runs[t].pc = "done"
        /\ runs[u].pc = "ugRankLoop"
        /\ runs[u].currentLoopAmounts >= 1

-----------------------------------------------------------------------------
(* The secondary and tertiary keys of the selection.                        *)

\* The members of the group of run record r that holds u.
GroupOf(r, u) ==
    UNION {Range(r.groups[g]) : g \in {h \in 1..Len(r.groups) : Includes(r.groups[h], u)}}

\* The participants a result is judged on: those with a preference entry
\* who are in a group.
Judged(r) == {u \in DOMAIN preferences : InGroup(r, u)}

\* How many of its listed friends u has in its group.
FriendsInGroup(r, u) == Cardinality(GroupOf(r, u) \cap Range(preferences[u]))

\* The participants tied at the minimum friend count of the result.
TiedAtMinimum(r) ==
    {u \in Judged(r) : \A v \in Judged(r) : FriendsInGroup(r, u) <= FriendsInGroup(r, v)}

\* The lowest favorability among the groups of the result whose
\* favorability is a number.
Favorabilities(r) ==
    {q \in {getPercentFavorability(r.groups[g], preferences) : g \in 1..Len(r.groups)} :
        ~IsNaN(q)}

LowestFavorability(r) ==
    CHOOSE q \in Favorabilities(r) : \A p \in Favorabilities(r) : ~QuotientLess(p, q)

\* Results t and u have the same minimum friend count.
TieOnMinFriends(t, u) ==
    /\ (Judged(runs[t]) = {}) = (Judged(runs[u]) = {})
    /\ \A x \in TiedAtMinimum(runs[t]) : \A y \in TiedAtMinimum(runs[u]) :
           FriendsInGroup(runs[t], x) = FriendsInGroup(runs[u], y)

(* C11: among the results that tie with the selected one on the minimum    *)
(* friend count, none has fewer participants tied at that minimum, and     *)
(* among those that tie on that number too, none has a higher lowest       *)
(* per-group favorability.                                                  *)
SelectsByTiedCountThenFavorability ==
    bestResult # 0 =>
        \A t \in RunIds :
            TieOnMinFriends(bestResult, t) =>
                /\ Cardinality(TiedAtMinimum(runs[bestResult]))
                       <= Cardinality(TiedAtMinimum(runs[t]))
                /\ (Cardinality(TiedAtMinimum(runs[bestResult]))
                        = Cardinality(TiedAtMinimum(runs[t])))
                       => ~QuotientLess(LowestFavorability(runs[bestResult]),
                                        LowestFavorability(runs[t]))

\* The second result was selected over the first on the third key alone,
\* every group of both having a favorability that is a number.
SelectedOnFavorability ==
    /\ bestResult = 2
    /\ \A t \in RunIds : \A g \in 1..Len(runs[t].groups) :
           ~IsNaN(getPercentFavorability(runs[t].groups[g], preferences))
    /\ TieOnMinFriends(1, 2)
    /\ Cardinality(TiedAtMinimum(runs[1])) = Cardinality(TiedAtMinimum(runs[2]))
    /\ QuotientLess(LowestFavorability(runs[1]), LowestFavorability(runs[2]))

-----------------------------------------------------------------------------
(* Malformed schedules.                                                     *)

\* Some token of the schedule is not a string of decimal digits.
Malformed(argument) ==
    \E n \in 1..Len(argument) :
        argument[n] = "" \/ LeadingDigits(argument[n], 0) < Len(argument[n])

(* C12 as stated: under a schedule with a non-numeric token no trial runs: *)
(* no run takes a step, so none works with a NaN or coerced capacity.      *)
MalformedScheduleRunsNoTrial ==
    Malformed(groupSizesArgument) =>
        \A t \in RunIds :
            /\ runs[t].pc = "phaseA"
            /\ runs[t].i = 0
            /\ runs[t].currentLoopAmounts = 0

-----------------------------------------------------------------------------
(* The restart rule of Phase A.                                             *)

\* Run t ends the turn of the last identity of its order in this step: it
\* was attempted (the restart check is passed) or skipped as placed.
EndOfOrderReached(t) ==
    /\ runs[t].pc \in {"phaseA", "restartCheck"}
    /\ runs[t].i = Len(runs[t].userOrder) - 1
    /\ runs'[t].pc = "phaseA"

(* C13 as stated: whenever the end of the order is reached in a pass that  *)
(* changed something, with an identity of the order unplaced and fewer     *)
(* than 100 restarts made, the pass restarts from the beginning.           *)
RestartsWheneverPassChanged ==
    [][\A t \in RunIds :
          (/\ EndOfOrderReached(t)
           /\ runs[t].hasUpdatedThisLoop
           /\ Len(runs[t].placedUsers) < Len(runs[t].userOrder)
           /\ runs[t].currentLoopAmounts < MOVE_ON_COUNT)
              => /\ runs'[t].i = 0
                 /\ runs'[t].currentLoopAmounts = runs[t].currentLoopAmounts + 1]_vars

-----------------------------------------------------------------------------
(* The caps of the Phase B passes.                                          *)

\* The weighted total of the members of the group that have the gender.
WeightOfGender(group, isMale) ==
    SumSeq([n \in 1..Len(group) |->
               IF users[group[n]].isMale = isMale THEN getMultiplier(group[n]) ELSE 0])

\* Run t places its Phase B user in this step, in the given pass (1..3).
PlacedInPass(t, pass) ==
    /\ FallbackTurn(t)
    /\ runs'[t].j \div Len(runs[t].groups) = pass - 1

\* The id of the group that receives the Phase B user of run t in this step.
ReceivingGroup(t) ==
    runs'[t].sizeSorted[(runs'[t].j % Len(runs[t].groups)) + 1]

(* C14 as stated: after a placement of Phase B pass 1 the receiving group's *)
(* weighted total is within its own target size and, the one-gender flag   *)
(* being off, the weighted total of the placed user's gender is within     *)
(* half of that target size, rounded down.                                 *)
PassOneKeepsOwnCaps ==
    [][\A t \in RunIds :
          PlacedInPass(t, 1) =>
              \A g \in {ReceivingGroup(t)} :
                  /\ getAllMultiplier(runs'[t].groups[g]) <= runs[t].groupSizes[g]
                  /\ ~oneGenderGroups =>
                         WeightOfGender(runs'[t].groups[g],
                                        users[PhaseBUser(runs[t])].isMale)
                             <= runs[t].groupSizes[g] \div 2]_vars

\* Run t places its Phase B user into some group in this step.
PlacedInFallback(t) ==
    /\ FallbackTurn(t)
    /\ runs'[t].j < Len(runs[t].groups) * 3

(* C15 as stated: a placement of Phase B pass 2 leaves the receiving       *)
(* group's weighted total within that group's own target size, and a group *)
(* already above its target size receives a user only in pass 3.           *)
PassTwoKeepsTotalCap ==
    [][\A t \in RunIds :
          /\ PlacedInPass(t, 2) =>
                 getAllMultiplier(runs'[t].groups[ReceivingGroup(t)])
                     <= runs[t].groupSizes[ReceivingGroup(t)]
          /\ (/\ PlacedInFallback(t)
              /\ getAllMultiplier(runs[t].groups[ReceivingGroup(t)])
                     > runs[t].groupSizes[ReceivingGroup(t)])
                 => PlacedInPass(t, 3)]_vars

-----------------------------------------------------------------------------
(* The evictions of Phase A.                                                *)

\* The user whose turn it is in run record r, and the group it tries.
PhaseAUser(r) == r.userOrder[r.i + 1]
TriedGroup(r) == r.ugRanked[r.j + 1]

\* The tried group with the user inserted and re-ranked (lines 632-633).
Reranked(r) == getGURanking(preferences, groupWithNew(r.groups[TriedGroup(r)], PhaseAUser(r)))

\* Run t makes one iteration of ugRankLoop in this step.
TriesGroup(t) ==
    /\ runs[t].pc = "ugRankLoop"
    /\ runs'[t].pc # "ugRankLoop" \/ runs'[t].j = runs[t].j + 1

\* The tried group holds a member forming an anti-preference pair with the
\* user of the turn.
TriedGroupConflicts(r) ==
    ~canTryJoiningGroup(antiPreferences, r.groups[TriedGroup(r)], PhaseAUser(r))

\* The capacity check of line 639 is true for the tried group with the user
\* inserted (its sums do not depend on the order of the members).
OverCapacity(r) ==
    hasMaximum(groupWithNew(r.groups[TriedGroup(r)], PhaseAUser(r)),
               users[PhaseAUser(r)].isMale, r.groupSizes[TriedGroup(r)],
               FloorHalf(r.groupSizes[TriedGroup(r)]), oneGenderGroups, users)

\* The members of the group that have the gender, from the tail upward.
SameGenderFromTail(group, isMale) ==
    SelectSeq([n \in 1..Len(group) |-> group[Len(group) + 1 - n]],
              LAMBDA member : users[member].isMale = isMale)

\* The weighted total of the first len members of the list.
WeightOfFirst(list, len) == SumSeq([n \in 1..len |-> getMultiplier(list[n])])

(* C16: when a Phase A insertion of user u of weight w triggers the        *)
(* capacity check, the members removed are exactly the shortest run, from  *)
(* the tail of the re-ranked group upward, of members of u's gender whose  *)
(* accumulated weight is >= w; the rest of the group stays, in order, and  *)
(* every removed member leaves the placed set as well.                     *)
EvictsShortestSameGenderTail ==
    [][\A t \in RunIds :
          (TriesGroup(t) /\ ~TriedGroupConflicts(runs[t]) /\ OverCapacity(runs[t])) =>
              \A u \in {PhaseAUser(runs[t])} :
              \A guRanked \in {Reranked(runs[t])} :
              \A tail \in {SameGenderFromTail(guRanked, users[u].isMale)} :
              \E len \in 1..Len(tail) :
                  /\ WeightOfFirst(tail, len) >= getMultiplier(u)
                  /\ WeightOfFirst(tail, len - 1) < getMultiplier(u)
                  /\ runs'[t].groups[TriedGroup(runs[t])]
                         = SelectSeq(guRanked,
                                     LAMBDA member :
                                         \A n \in 1..len : tail[n] # member)
                  /\ \A n \in 1..len : ~Includes(runs'[t].placedUsers, tail[n])
                  /\ \A member \in Range(runs[t].placedUsers) :
                         (\A n \in 1..len : tail[n] # member)
                             => Includes(runs'[t].placedUsers, member)]_vars

\* An insertion of the weight-2 user has just removed two other members.
TwoEvictedForOne ==
    \E t \in RunIds :
        /\ runs[t].pc = "restartCheck"
        /\ PhaseAUser(runs[t]) = "c--x2"
        /\ Len(runs[t].evicted) = 2
        /\ InGroup(runs[t], "c--x2")
        /\ \A n \in 1..2 : ~InGroup(runs[t], runs[t].evicted[n])

(* C17: a user that is itself evicted on insertion is afterwards neither   *)
(* in that group nor in the placed set, and its turn goes on with the next *)
(* group of its ranking, groups with an exclusion conflict being passed    *)
(* over unchanged; the turn ends with the user unplaced only when the      *)
(* ranking, which holds every group, is exhausted by conflicts and         *)
(* self-evictions, and with the user in exactly one group otherwise.       *)
SelfEvictedTriesNextGroup ==
    [][\A t \in RunIds :
          TriesGroup(t) =>
              \A u \in {PhaseAUser(runs[t])} :
              \A selfEvicted \in {/\ ~TriedGroupConflicts(runs[t])
                                  /\ ~Includes(runs'[t].groups[TriedGroup(runs[t])], u)} :
                  /\ Range(runs[t].ugRanked) = 1..Len(runs[t].groups)
                  /\ ~InGroup(runs[t], u)
                  /\ ~Includes(runs[t].placedUsers, u)
                  /\ TriedGroupConflicts(runs[t]) =>
                         /\ runs'[t].groups = runs[t].groups
                         /\ runs'[t].placedUsers = runs[t].placedUsers
                  /\ selfEvicted =>
                         /\ ~InGroup(runs'[t], u)
                         /\ ~Includes(runs'[t].placedUsers, u)
                  /\ (TriedGroupConflicts(runs[t]) \/ selfEvicted) =>
                         IF runs[t].j + 1 < Len(runs[t].ugRanked)
                         THEN /\ runs'[t].pc = "ugRankLoop"
                              /\ runs'[t].j = runs[t].j + 1
                         ELSE runs'[t].pc = "restartCheck"
                  /\ ~(TriedGroupConflicts(runs[t]) \/ selfEvicted) =>
                         /\ runs'[t].pc = "restartCheck"
                         /\ Occurrences(runs'[t], u) = 1
                         /\ Includes(runs'[t].placedUsers, u)]_vars

\* The user of the turn has just been evicted from the first group of its
\* ranking and is about to try the second.
SelfEvictedTurnContinues ==
    \E t \in RunIds :
        /\ runs[t].pc = "ugRankLoop"
        /\ runs[t].j = 1
        /\ runs[t].evicted # <<>>
        /\ runs[t].evicted[Len(runs[t].evicted)] = PhaseAUser(runs[t])
        /\ ~InGroup(runs[t], PhaseAUser(runs[t]))

-----------------------------------------------------------------------------
(* The scan order of Phase B.                                               *)

\* The user's score for the group with the id, 0 without a preference entry.
ScoreOrZero(r, u, g) ==
    IF u \in DOMAIN preferences THEN getUGScore(preferences, r.groups[g], u) ELSE 0

(* C18 as stated: for an unplaced user of Phase B the groups are scanned   *)
(* in ascending order of weighted size minus target size, and groups equal *)
(* on that key in descending order of the user's score for the group, 0    *)
(* for a user without a preference entry.                                  *)
ScansBySpotsThenScore ==
    [][\A t \in RunIds :
          FallbackTurn(t) =>
              \A u \in {PhaseBUser(runs[t])} :
              \A sorted \in {runs'[t].sizeSorted} :
              \A x, y \in 1..Len(sorted) :
                  x < y =>
                      \A kx \in {spotsKey(runs[t].groups[sorted[x]],
                                          runs[t].groupSizes[sorted[x]])} :
                      \A ky \in {spotsKey(runs[t].groups[sorted[y]],
                                          runs[t].groupSizes[sorted[y]])} :
                          /\ kx <= ky
                          /\ kx = ky => ScoreOrZero(runs[t], u, sorted[x])
                                            >= ScoreOrZero(runs[t], u, sorted[y])]_vars

-----------------------------------------------------------------------------
(* The member order of the final groups.                                    *)

\* The acceptability score of the member within the group, counting the
\* listings of the members that have a preference entry.
ScoreWithin(group, member) ==
    SumSeq([n \in 1..Len(group) |->
               IF group[n] \in DOMAIN preferences /\ Includes(preferences[group[n]], member)
               THEN getMultiplier(member) * getMultiplier(group[n]) ELSE 0])

(* C19 as stated: in every trial result the members of each group are in   *)
(* descending order of their acceptability score within the final group.   *)
FinalGroupsRankedByScore ==
    \A t \in RunIds :
        Done(t) =>
            \A g \in 1..Len(runs[t].groups) :
                \A n \in 1..(Len(runs[t].groups[g]) - 1) :
                    ScoreWithin(runs[t].groups[g], runs[t].groups[g][n])
                        >= ScoreWithin(runs[t].groups[g], runs[t].groups[g][n + 1])

-----------------------------------------------------------------------------
(* The ranking of the groups for a user.                                    *)

\* The score of the candidate of the pending or returned call for group g.
CandidateScore(g) == getUGScore(preferences, call.groups[g], call.newMember)

(* C20: getUGRanking returns a permutation of all group ids in which a     *)
(* group with a strictly higher score for the candidate precedes every     *)
(* group with a lower score and, among equal scores, a group of more       *)
(* members precedes one of fewer; only groups equal on both keys are left  *)
(* in an order that the ranking does not fix.                              *)
RankedByScoreThenMembers ==
    Returned("getUGRanking") =>
        /\ Len(call.ret) = Len(call.groups)
        /\ Range(call.ret) = 1..Len(call.groups)
        /\ \A x, y \in 1..Len(call.ret) :
               x < y =>
                   /\ CandidateScore(call.ret[x]) >= CandidateScore(call.ret[y])
                   /\ CandidateScore(call.ret[x]) = CandidateScore(call.ret[y])
                          => Len(call.groups[call.ret[x]]) >= Len(call.groups[call.ret[y]])

\* A ranking of three groups of equal score: the group of more members
\* first, then two groups equal on both keys with the later one first.
FullTieReversed ==
    /\ Returned("getUGRanking")
    /\ Len(call.groups) = 3
    /\ CandidateScore(call.ret[1]) = CandidateScore(call.ret[2])
    /\ Len(call.groups[call.ret[1]]) > Len(call.groups[call.ret[2]])
    /\ CandidateScore(call.ret[2]) = CandidateScore(call.ret[3])
    /\ Len(call.groups[call.ret[2]]) = Len(call.groups[call.ret[3]])
    /\ call.ret[2] > call.ret[3]

-----------------------------------------------------------------------------
(* The ranking of the members of a group.                                   *)

\* The place of the member in the list.
IndexIn(list, member) == CHOOSE n \in 1..Len(list) : list[n] = member

(* C21: getGURanking returns a permutation of the group's members in       *)
(* descending order of their score within the group, members of equal      *)
(* score staying in the order they had in the group, so that the result    *)
(* is fixed by the group and the preferences and a member appended last    *)
(* comes after every member of equal score.                                *)
RankedByScoreThenInsertion ==
    Returned("getGURanking") =>
        /\ Len(call.ret) = Len(call.group)
        /\ Range(call.ret) = Range(call.group)
        /\ \A x, y \in 1..Len(call.ret) :
               x < y =>
                   /\ ScoreWithin(call.group, call.ret[x])
                          >= ScoreWithin(call.group, call.ret[y])
                   /\ ScoreWithin(call.group, call.ret[x])
                          = ScoreWithin(call.group, call.ret[y])
                          => IndexIn(call.group, call.ret[x])
                                 < IndexIn(call.group, call.ret[y])

\* The last of three members is ranked first, and the other two, equal in
\* score, keep their order.
LastMemberRankedFirst ==
    /\ Returned("getGURanking")
    /\ Len(call.group) = 3
    /\ call.ret = <<call.group[3], call.group[1], call.group[2]>>
    /\ ScoreWithin(call.group, call.group[1]) = ScoreWithin(call.group, call.group[2])

-----------------------------------------------------------------------------
(* The capacity check.                                                      *)

\* The weighted total of the members of the group of the call, and of those
\* among them whose gender flag is the one handed to the call.
CallTotal == SumSeq([n \in 1..Len(call.group) |-> getMultiplier(call.group[n])])
CallTotalSame ==
    SumSeq([n \in 1..Len(call.group) |->
               IF call.users[call.group[n]].isMale = call.isMale
               THEN getMultiplier(call.group[n]) ELSE 0])

-----------------------------------------------------------------------------
(* The minimum number of friends.                                           *)

\* The members of the groups of the call that have a preference entry.
CallJudged ==
    {u \in DOMAIN preferences : \E g \in 1..Len(call.groups) : Includes(call.groups[g], u)}

\* The number of members of u's own group that u lists.
CallFriends(u) ==
    Cardinality({v \in Range(call.groups[CHOOSE g \in 1..Len(call.groups) :
                                             Includes(call.groups[g], u)]) :
                    Includes(preferences[u], v)})

(* C23: getMinFriends returns the least number, over the placed users that *)
(* have a preference entry, of members of their own group they list, with *)
(* exactly the users having that number, each once (Infinity and nobody    *)
(* when no placed user has an entry); users without an entry do not count. *)
MinFriendsOverJudged ==
    Returned("getMinFriends") =>
        IF CallJudged = {}
        THEN call.ret.minFriends = Infinity /\ call.ret.usernames = <<>>
        ELSE /\ \E u \in CallJudged : CallFriends(u) = call.ret.minFriends
             /\ \A u \in CallJudged : CallFriends(u) >= call.ret.minFriends
             /\ Range(call.ret.usernames)
                    = {u \in CallJudged : CallFriends(u) = call.ret.minFriends}
             /\ \A x, y \in 1..Len(call.ret.usernames) :
                    x # y => call.ret.usernames[x] # call.ret.usernames[y]

\* Three placed users: one without an entry and without friends, one with
\* a friend, and the third alone at the minimum.
MinimumSkipsUserWithoutEntry ==
    /\ Returned("getMinFriends")
    /\ Len(call.ret.usernames) = 1
    /\ \E u \in CallJudged : CallFriends(u) > call.ret.minFriends
    /\ \E g \in 1..Len(call.groups) : \E n \in 1..Len(call.groups[g]) :
           /\ call.groups[g][n] \notin DOMAIN preferences
           /\ Len(call.groups[g]) = 1

-----------------------------------------------------------------------------
(* The favorability of a group.                                             *)

\* The ordered pairs of different places of the group of the call.
CallPairs ==
    {pair \in (1..Len(call.group)) \X (1..Len(call.group)) : pair[1] # pair[2]}

\* The weight of an ordered pair: the product of the members' weights.
PairWeight(pair) ==
    getMultiplier(call.group[pair[1]]) * getMultiplier(call.group[pair[2]])

\* The first member of the pair lists the second.
PairHit(pair) ==
    /\ call.group[pair[1]] \in DOMAIN preferences
    /\ Includes(preferences[call.group[pair[1]]], call.group[pair[2]])

\* The sum of the weights of the pairs of the set.
RECURSIVE WeightOfPairs(_)
WeightOfPairs(pairs) ==
    IF pairs = {} THEN 0
    ELSE LET pair == CHOOSE q \in pairs : TRUE
         IN  PairWeight(pair) + WeightOfPairs(pairs \ {pair})

(* C24 as stated: for a group of two or more members the favorability is   *)
(* the weight of the ordered pairs (i, j), i # j, with j in i's list,      *)
(* divided by the weight of all ordered pairs (i, j), i # j; it is exactly *)
(* 1 when every member lists every other member.                           *)
FavorabilityIsPairFraction ==
    (Returned("getPercentFavorability") /\ Len(call.group) >= 2) =>
        /\ call.ret[2] # 0
        /\ call.ret[1] * WeightOfPairs(CallPairs)
               = WeightOfPairs({pair \in CallPairs : PairHit(pair)}) * call.ret[2]
        /\ (\A pair \in CallPairs : PairHit(pair)) => call.ret[1] = call.ret[2]

-----------------------------------------------------------------------------
(* The caps during Phase A.                                                 *)

\* Run t is in Phase A between the turns of two users.
BetweenTurns(t) == runs[t].pc \in {"phaseA", "restartCheck"}

(* C25: at the end of every user's turn in Phase A the weighted total of   *)
(* every group is within the group's target size and, the one-gender flag  *)
(* being off, the weighted total of each gender in the group is within     *)
(* half of the target size, rounded down.                                  *)
PhaseAKeepsCaps ==
    \A t \in RunIds :
        BetweenTurns(t) =>
            \A g \in 1..Len(runs[t].groups) :
                /\ getAllMultiplier(runs[t].groups[g]) <= runs[t].groupSizes[g]
                /\ ~oneGenderGroups =>
                       \A isMale \in BOOLEAN :
                           WeightOfGender(runs[t].groups[g], isMale)
                               <= runs[t].groupSizes[g] \div 2

\* A turn has just ended, the one-gender flag being off, with an eviction
\* that left the user's gender exactly at its cap in the group.
EvictionLeftGenderAtCap ==
    \E t \in RunIds :
        /\ runs[t].pc = "restartCheck"
        /\ ~oneGenderGroups
        /\ runs[t].evicted # <<>>
        /\ \E g \in 1..Len(runs[t].groups) :
               /\ Includes(runs[t].groups[g], PhaseAUser(runs[t]))
               /\ WeightOfGender(runs[t].groups[g], users[PhaseAUser(runs[t])].isMale)
                      = runs[t].groupSizes[g] \div 2

-----------------------------------------------------------------------------
(* Who can be evicted.                                                      *)

\* The score of the member within the tried group with the user of the
\* turn inserted.
ScoreWithNewcomer(r, member) ==
    getGUScore(preferences, groupWithNew(r.groups[TriedGroup(r)], PhaseAUser(r)), member)

\* The members of the tried group that have the gender of the user of the
\* turn.
SameGenderMembers(r) ==
    {m \in Range(r.groups[TriedGroup(r)]) :
        users[m].isMale = users[PhaseAUser(r)].isMale}

(* C26: a member placed before is evicted by the insertion of a newcomer   *)
(* only if it has the newcomer's gender and a strictly lower score than    *)
(* the newcomer in the group with the newcomer in it; a newcomer whose     *)
(* score is at most that of every member of its gender in a group over     *)
(* capacity leaves every member in the group and in the placed set, and is *)
(* itself removed.                                                         *)
EvictsOnlyLowerRankedSameGender ==
    [][\A t \in RunIds :
          (TriesGroup(t) /\ ~TriedGroupConflicts(runs[t])) =>
              \A u \in {PhaseAUser(runs[t])} :
              \A g \in {TriedGroup(runs[t])} :
                  /\ \A m \in Range(runs[t].groups[g]) :
                         ~Includes(runs'[t].groups[g], m) =>
                             /\ m \in SameGenderMembers(runs[t])
                             /\ ScoreWithNewcomer(runs[t], m)
                                    < ScoreWithNewcomer(runs[t], u)
                  /\ (/\ OverCapacity(runs[t])
                      /\ \A m \in SameGenderMembers(runs[t]) :
                             ScoreWithNewcomer(runs[t], u)
                                 <= ScoreWithNewcomer(runs[t], m)) =>
                         /\ Range(runs'[t].groups[g]) = Range(runs[t].groups[g])
                         /\ Range(runs'[t].placedUsers) = Range(runs[t].placedUsers)]_vars

\* The user of the turn, equal in score to a member of its gender in the
\* group it tried last, has just been removed from it alone.
TiedNewcomerEvictedAlone ==
    \E t \in RunIds :
        /\ runs[t].pc \in {"ugRankLoop", "restartCheck"}
        /\ runs[t].j >= 1
        /\ runs[t].evicted = <<PhaseAUser(runs[t])>>
        /\ \E m \in Range(runs[t].groups[runs[t].ugRanked[runs[t].j]]) :
               /\ users[m].isMale = users[PhaseAUser(runs[t])].isMale
               /\ getGUScore(preferences,
                             groupWithNew(runs[t].groups[runs[t].ugRanked[runs[t].j]],
                                          PhaseAUser(runs[t])), m)
                      = getGUScore(preferences,
                                   groupWithNew(runs[t].groups[runs[t].ugRanked[runs[t].j]],
                                                PhaseAUser(runs[t])),
                                   PhaseAUser(runs[t]))

====
